---- MODULE Spec2Model ----
(***************************************************************************)
(* Model of the page-imposition engine, pdf_merger and create_matrix of    *)
(* merge_pdf_to_one_page.py.  One run of pdf_merger is a behaviour: the    *)
(* inputs (the document, the -s, -f and -r arguments) are fixed by Init    *)
(* and the body of the function is cut into steps at its loops.            *)
(*                                                                         *)
(* Lengths are in points.  A media box is kept in half points so that the  *)
(* round() of lines 49-55 has something to round.  A diagonal is kept as   *)
(* its square (an integer); the square root is taken inside RoundRatio,    *)
(* the only place the code uses a diagonal.                                *)
(***************************************************************************)
EXTENDS Integers, Sequences, FiniteSets, TLC

\* ------------------------------------------------------------- bounds ----
\* Every page count 0..MaxPages is tried, and the counts of FullCounts
\* (a full 8-, 16- and 32-cell sheet, and one page more).
MaxPages == 5
\* Pages 1..MaxDevPos of a document may carry a media box of their own.
MaxDevPos == 3

\* split_pdf is run on documents of 0..MaxSplitPages pages, with -p from
\* -1 to MaxSplitPages + 1.
MaxSplitPages == 5
\* create_matrix is applied to every n, m in 0..MaxGrid.
MaxGrid == 8

\* The band sweep classifies one page of every width 1..MaxBandWidth, of
\* height width * 1.414.
MaxBandWidth == 900

FullCounts == {8, 9, 16, 17, 32, 33}
PageCounts == (0..MaxPages) \cup FullCounts

\* Media boxes in points: the ISO sizes A3..A9, two landscape pages, and
\* pages at the edges of the classification bands.
Sizes == { <<842, 1190>>, <<595, 842>>, <<420, 595>>, <<298, 420>>,
           <<210, 298>>, <<148, 210>>, <<105, 148>>,
           <<842, 595>>, <<595, 420>>,
           <<535, 757>>, <<178, 252>>,
           <<624, 882>>, <<625, 884>>, <<565, 799>>, <<566, 800>>,
           <<883, 1249>>, <<884, 1250>>, <<799, 1130>>, <<800, 1131>>,
           <<446, 631>>, <<447, 632>>, <<387, 547>>, <<388, 549>>,
           <<211, 298>>, <<212, 300>>, <<205, 290>>, <<206, 291>> }

\* What a deviating page adds to the media box, in half points.
Deltas == { <<1, 0>>, <<0, 1>>, <<0, 2>> }

\* Values of the -s argument; main() turns a missing one into "A4".
SizeArgs == {"A4", "A3", "B5"}

\* ---------------------------------------------------------- constants ----
A3Width == 842
A3Height == 1190
A4Width == 595
A4Height == 842

PAPER_SIZES == [A3 |-> [width |-> A3Width, height |-> A3Height],
                A4 |-> [width |-> A4Width, height |-> A4Height]]

\* ------------------------------------------------------ pure functions ----
\* round(x) of a length x given in half points: Python rounds a tie to the
\* even integer.
PyRound(x2) ==
    LET q == x2 \div 2
    IN  IF x2 % 2 = 0 THEN q
        ELSE IF q % 2 = 0 THEN q ELSE q + 1

\* get_diagonal, squared.
get_diagonal(width, height) == width * width + height * height

\* floor((q + r/b) * 10^digits) for 0 <= r < b, by long division, one
\* decimal digit at a time (no intermediate exceeds 10 * b).
RECURSIVE LongDiv(_, _, _, _)
LongDiv(q, r, b, digits) ==
    IF digits = 0 THEN q
    ELSE LongDiv(10 * q + (10 * r) \div b, (10 * r) % b, b, digits - 1)

\* floor(10^6 * page_diagonal^2 / new_diagonal^2), both given squared.
RatioSq(pd, nd) == LongDiv(pd \div nd, pd % nd, nd, 6)

\* round(page_diagonal / new_diagonal, ndigits) * 10^ndigits, ndigits 1 or 2:
\* the k with (k - 1/2) / 10^ndigits <= ratio < (k + 1/2) / 10^ndigits,
\* compared on the squares.  A tie would need 400 * pd = (2k+1)^2 * nd
\* (or 40000 * pd), which no integer pd meets for the A3 or A4 diagonal.
RoundRatio(pd, nd, ndigits) ==
    LET scale == IF ndigits = 1 THEN 2500 ELSE 25
        x == RatioSq(pd, nd)
    IN  CHOOSE k \in 0..200 :
            /\ (k = 0 \/ (2 * k - 1) * (2 * k - 1) * scale <= x)
            /\ x < (2 * k + 1) * (2 * k + 1) * scale

\* Slip: the row is appended as i instead of i - 1.
RECURSIVE matrix_rowOffByOne(_, _, _)
matrix_rowOffByOne(n, i, j) ==
    IF j >= n THEN <<>> ELSE <<<<j, i>>>> \o matrix_rowOffByOne(n, i, j + 1)

\* create_matrix: for i in range(m, 0, -1): for j in range(n): [j, i-1].
RECURSIVE matrix_row(_, _, _)
matrix_row(n, i, j) ==
    IF j >= n THEN <<>> ELSE <<<<j, i - 1>>>> \o matrix_row(n, i, j + 1)

\* Slip: the outer loop runs range(1, m + 1), row 0 first.
RECURSIVE matrix_rowsAscending(_, _)
matrix_rowsAscending(n, i) ==
    IF i <= 0 THEN <<>>
    ELSE matrix_rowsAscending(n, i - 1) \o matrix_row(n, i, 0)

RECURSIVE matrix_rows(_, _)
matrix_rows(n, i) ==
    IF i <= 0 THEN <<>> ELSE matrix_row(n, i, 0) \o matrix_rows(n, i - 1)

create_matrix(n, m) == matrix_rows(n, m)

\* math.ceil(a / b) for a >= 0, b > 0.
Ceil(a, b) == (a + b - 1) \div b

\* PageObject.create_blank_page(None, width, height).
create_blank_page(width, height) ==
    [width |-> width, height |-> height, placed |-> <<>>]

\* Slip: the two offsets are passed in the wrong order.
mergeTranslatedPageSwapped(sheet, p, x_offset, y_offset) ==
    [sheet EXCEPT !.placed = Append(@, [page |-> p, x |-> y_offset, y |-> x_offset])]

\* sheet.mergeTranslatedPage(pdf.pages[page], x_offset, y_offset).
mergeTranslatedPage(sheet, p, x_offset, y_offset) ==
    [sheet EXCEPT !.placed = Append(@, [page |-> p, x |-> x_offset, y |-> y_offset])]

\* The blank sheet of lines 139-142 and 173-176.
BlankSheet(o, w, h) ==
    IF o = "portrait" THEN create_blank_page(w, h) ELSE create_blank_page(h, w)

\* ---------------------------------------------------------------- state ----
VARIABLES
    pdf,            \* pdf.pages: the media boxes <<width, height>>, half points
    new_size,       \* the -s argument, then the name of the target sheet
    fill,           \* the -f argument
    force_portrait, \* the -r argument
    pc,             \* position in pdf_merger
    it,             \* position of the iterator of the running for loop
    num_pages, page_width, page_height, page_diagonal,
    new_width, new_height, new_diagonal,
    num_new_pages,
    level,          \* the branch of lines 87-133 that was taken
    indices, orientation,
    sheets,         \* every PageObject created by create_blank_page, by identity
    translated_page,\* identity (index into sheets) of the current sheet, 0: none
    writer,         \* the PdfWriter: identities of the added sheets, in order
    i, page, full_page,
    err,            \* the exception pdf_merger raised, "none" if none
    err_info,       \* what the exception's message carries
    out_file        \* the output file: <<>> not opened, else <<sheets written>>

inputs == <<pdf, new_size, fill, force_portrait>>
locals == <<num_pages, page_width, page_height, page_diagonal, new_width,
            new_height, new_diagonal, num_new_pages, level, indices,
            orientation, i, page, full_page>>
outputs == <<sheets, translated_page, writer, err, err_info, out_file>>

\* split_pdf.py, pdf_splitter.
VARIABLES
    sp_pc,          \* position in pdf_splitter, "off" when it is not run
    sp_pdf,         \* pdf.pages: the pages, by their number in the input
    split_page,     \* the -p argument
    sp_num_pages,
    pdf_writer,     \* the pages added to the current PdfWriter
    sp_page,        \* position of the iterator of the running for loop
    sp_files,       \* the output files: k |-> pages of <fname>_page_<k>.pdf
    sp_err          \* the exception pdf_splitter raised, "none" if none

svars == <<sp_pc, sp_pdf, split_page, sp_num_pages, pdf_writer, sp_page,
           sp_files, sp_err>>

\* compress_pdf.py, main and compress.
VARIABLES
    c_pc,           \* position in main, "off" when it is not run
    c_args,         \* args: out (given or not), compress (set or None), backup
    replace_original,
    temp_file,      \* FALSE: None, TRUE: the path returned by mkstemp
    fs,             \* the files: input, temp, out, backup |-> content
    input_pdf_ext,  \* the input path ends with .pdf
    return_code,    \* of the Ghostscript call, -1 before it
    gs_wrote,       \* Ghostscript wrote its output file
    response,       \* the answer to the prompt of line 180, "none" before it
    c_err,          \* the exception raised in the try block, "none" if none
    exit_code       \* the status given to sys.exit, -1 if it was not called

cvars == <<c_pc, c_args, replace_original, temp_file, fs, input_pdf_ext,
           return_code, gs_wrote, response, c_err, exit_code>>

\* create_matrix called on its own.
VARIABLES
    cm_pc,          \* "call" before the call, "return" after, "off"
    cm_args,        \* <<n, m>>
    matrix          \* the returned list

mvars == <<cm_pc, cm_args, matrix>>

others == <<svars, cvars, mvars>>
vars == <<inputs, pc, it, locals, outputs, others>>

\* pdf_splitter is not run.
SplitOff ==
    /\ sp_pc = "off" /\ sp_pdf = <<>> /\ split_page = 0 /\ sp_num_pages = 0
    /\ pdf_writer = <<>> /\ sp_page = 0 /\ sp_files = <<>> /\ sp_err = "none"

\* compress_pdf is not run.
CompressOff ==
    /\ c_pc = "off"
    /\ c_args = [out |-> FALSE, compress_set |-> FALSE, compress |-> 0,
                 backup |-> FALSE]
    /\ replace_original = FALSE /\ temp_file = FALSE
    /\ fs = [input |-> "absent", temp |-> "absent", out |-> "absent",
             backup |-> "absent"]
    /\ input_pdf_ext = TRUE /\ return_code = -1 /\ gs_wrote = FALSE
    /\ response = "none" /\ c_err = "none" /\ exit_code = -1

\* create_matrix is not called on its own.
MatrixOff ==
    /\ cm_pc = "off" /\ cm_args = <<0, 0>> /\ matrix = <<>>

\* A document of n pages of media box s, the pages of dev enlarged by d.
Document(n, s, dev, d) ==
    [k \in 1..n |-> IF k \in dev THEN <<2 * s[1] + d[1], 2 * s[2] + d[2]>>
                    ELSE <<2 * s[1], 2 * s[2]>>]

Min(a, b) == IF a < b THEN a ELSE b

Init ==
    /\ \E n \in PageCounts, s \in Sizes, d \in Deltas :
         \E dev \in SUBSET (1..Min(n, MaxDevPos)) :
            /\ (n \in FullCounts => dev = {})
            /\ pdf = Document(n, s, dev, d)
    /\ new_size \in SizeArgs
    /\ fill \in BOOLEAN
    /\ force_portrait \in BOOLEAN
    /\ pc = "start"
    /\ it = 0
    /\ num_pages = 0 /\ page_width = 0 /\ page_height = 0 /\ page_diagonal = 0
    /\ new_width = 0 /\ new_height = 0 /\ new_diagonal = 0
    /\ num_new_pages = 0
    /\ level = "none"
    /\ indices = <<>>
    /\ orientation = "none"
    /\ sheets = <<>>
    /\ translated_page = 0
    /\ writer = <<>>
    /\ i = 0 /\ page = 0
    /\ full_page = FALSE   \* unbound in the code until the first loop body
    /\ err = "none"
    /\ err_info = <<>>
    /\ out_file = <<>>
    /\ SplitOff /\ CompressOff /\ MatrixOff

\* -------------------------------------------------------------- actions ----
\* Lines 42-50: count the pages, reject an empty document, read the first
\* page's rounded media box.
Start ==
    /\ pc = "start"
    /\ UNCHANGED others
    /\ num_pages' = Len(pdf)
    /\ IF Len(pdf) = 0
       THEN /\ err' = "empty"
            /\ err_info' = <<>>
            /\ pc' = "failed"
            /\ UNCHANGED <<page_width, page_height>>
       ELSE /\ page_width' = PyRound(pdf[1][1])
            /\ page_height' = PyRound(pdf[1][2])
            /\ pc' = "validate"
            /\ UNCHANGED <<err, err_info>>
    /\ it' = 0
    /\ UNCHANGED <<inputs, page_diagonal, new_width, new_height, new_diagonal,
                   num_new_pages, level, indices, orientation, i, page,
                   full_page, sheets, translated_page, writer, out_file>>

\* Slip: the message carries the position counted from 0.
InconsistentMessageZeroBased(idx, width, height) ==
    <<idx, <<width, height>>, <<page_width, page_height>>>>

\* What the message of line 57 carries for the page at position idx of
\* enumerate: the page number, its size and the first page's size.
InconsistentMessage(idx, width, height) ==
    <<idx + 1, <<width, height>>, <<page_width, page_height>>>>

\* Lines 53-57: one iteration of the validation loop.
ValidatePage ==
    /\ pc = "validate"
    /\ UNCHANGED others
    /\ it < num_pages
    /\ LET width == PyRound(pdf[it + 1][1])
           height == PyRound(pdf[it + 1][2])
       IN  /\ i' = it
           /\ it' = it + 1
           /\ IF width # page_width \/ height # page_height
              THEN /\ err' = "inconsistent"
                   /\ err_info' = InconsistentMessage(it, width, height)
                   /\ pc' = "failed"
              ELSE UNCHANGED <<err, err_info, pc>>
    /\ UNCHANGED <<inputs, num_pages, page_width, page_height, page_diagonal,
                   new_width, new_height, new_diagonal, num_new_pages, level,
                   indices, orientation, page, full_page, sheets,
                   translated_page, writer, out_file>>

\* Lines 59-71: the page diagonal and the target sheet.
SelectTarget ==
    /\ pc = "validate"
    /\ UNCHANGED others
    /\ it >= num_pages
    /\ page_diagonal' = get_diagonal(page_width, page_height)
    /\ num_new_pages' = 1
    /\ IF new_size = "A4"
       THEN /\ new_width' = PAPER_SIZES["A4"].width
            /\ new_height' = PAPER_SIZES["A4"].height
            /\ UNCHANGED new_size
       ELSE /\ new_size' = "A3"
            /\ new_width' = PAPER_SIZES["A3"].width
            /\ new_height' = PAPER_SIZES["A3"].height
    /\ new_diagonal' = get_diagonal(new_width', new_height')
    /\ pc' = "upgrade"
    /\ UNCHANGED <<pdf, fill, force_portrait, it, num_pages, page_width,
                   page_height, level, indices, orientation, i, page,
                   full_page, outputs>>

\* Slip: the target's width and height move to A3, its diagonal is not
\* computed again.
UpgradeStaleDiagonal ==
    /\ pc = "upgrade"
    /\ UNCHANGED others
    /\ IF RoundRatio(page_diagonal, new_diagonal, 1) = 10 /\ new_size = "A4"
       THEN /\ new_width' = PAPER_SIZES["A3"].width
            /\ new_height' = PAPER_SIZES["A3"].height
            /\ UNCHANGED new_diagonal
       ELSE UNCHANGED <<new_width, new_height, new_diagonal>>
    /\ pc' = "classify"
    /\ UNCHANGED <<inputs, it, num_pages, page_width, page_height,
                   page_diagonal, num_new_pages, level, indices, orientation,
                   i, page, full_page, outputs>>

\* Lines 78-85: a page as large as an A4 target moves the target to A3.
Upgrade ==
    /\ pc = "upgrade"
    /\ UNCHANGED others
    /\ IF RoundRatio(page_diagonal, new_diagonal, 1) = 10 /\ new_size = "A4"
       THEN /\ new_width' = PAPER_SIZES["A3"].width
            /\ new_height' = PAPER_SIZES["A3"].height
            /\ new_diagonal' = get_diagonal(new_width', new_height')
       ELSE UNCHANGED <<new_width, new_height, new_diagonal>>
    /\ pc' = "classify"
    /\ UNCHANGED <<inputs, it, num_pages, page_width, page_height,
                   page_diagonal, num_new_pages, level, indices, orientation,
                   i, page, full_page, outputs>>

\* Slip: the first band is tested with the precision of the last three.
BandTwoDecimals(pd, nd) ==
    IF RoundRatio(pd, nd, 2) = 70 THEN "ONE_STEP"
    ELSE IF RoundRatio(pd, nd, 1) = 5 THEN "TWO_STEP"
    ELSE IF RoundRatio(pd, nd, 2) = 35 THEN "THREE_STEP"
    ELSE IF RoundRatio(pd, nd, 2) = 25 THEN "FOUR_STEP"
    ELSE IF RoundRatio(pd, nd, 2) = 18 THEN "FIVE_STEP"
    ELSE "none"

\* Slip: the first band is tested with >= instead of ==.
BandAtLeast(pd, nd) ==
    IF RoundRatio(pd, nd, 1) >= 7 THEN "ONE_STEP"
    ELSE IF RoundRatio(pd, nd, 1) = 5 THEN "TWO_STEP"
    ELSE IF RoundRatio(pd, nd, 2) = 35 THEN "THREE_STEP"
    ELSE IF RoundRatio(pd, nd, 2) = 25 THEN "FOUR_STEP"
    ELSE IF RoundRatio(pd, nd, 2) = 18 THEN "FIVE_STEP"
    ELSE "none"

\* Slip: the fourth band is tested with 1 decimal, against 0.2.
BandOneDecimalFour(pd, nd) ==
    IF RoundRatio(pd, nd, 1) = 7 THEN "ONE_STEP"
    ELSE IF RoundRatio(pd, nd, 1) = 5 THEN "TWO_STEP"
    ELSE IF RoundRatio(pd, nd, 2) = 35 THEN "THREE_STEP"
    ELSE IF RoundRatio(pd, nd, 1) = 2 THEN "FOUR_STEP"
    ELSE IF RoundRatio(pd, nd, 2) = 18 THEN "FIVE_STEP"
    ELSE "none"

\* The five tests of lines 87, 98, 105, 115 and 125, each on its own.
BandTests(pd, nd) ==
    << RoundRatio(pd, nd, 1) = 7,
       RoundRatio(pd, nd, 1) = 5,
       RoundRatio(pd, nd, 2) = 35,
       RoundRatio(pd, nd, 2) = 25,
       RoundRatio(pd, nd, 2) = 18 >>

\* The test of line 78.
SameSizeTest(pd, nd) == RoundRatio(pd, nd, 1) = 10

\* The conditions of the if/elif chain of lines 87-131, first match first.
Band(pd, nd) ==
    IF RoundRatio(pd, nd, 1) = 7 THEN "ONE_STEP"
    ELSE IF RoundRatio(pd, nd, 1) = 5 THEN "TWO_STEP"
    ELSE IF RoundRatio(pd, nd, 2) = 35 THEN "THREE_STEP"
    ELSE IF RoundRatio(pd, nd, 2) = 25 THEN "FOUR_STEP"
    ELSE IF RoundRatio(pd, nd, 2) = 18 THEN "FIVE_STEP"
    ELSE "none"

\* Slip: the force_portrait branch of the first level is repeated in the third.
LayoutPortraitThree(lv, portrait) ==
    IF lv = "ONE_STEP"
    THEN IF portrait
         THEN [cells |-> 2, grid |-> <<1, 2>>, orientation |-> "portrait"]
         ELSE [cells |-> 2, grid |-> <<2, 1>>, orientation |-> "landscape"]
    ELSE IF lv = "TWO_STEP"
    THEN [cells |-> 4, grid |-> <<2, 2>>, orientation |-> "portrait"]
    ELSE IF lv = "THREE_STEP"
    THEN IF portrait
         THEN [cells |-> 8, grid |-> <<2, 4>>, orientation |-> "portrait"]
         ELSE [cells |-> 8, grid |-> <<4, 2>>, orientation |-> "landscape"]
    ELSE IF lv = "FOUR_STEP"
    THEN [cells |-> 16, grid |-> <<4, 4>>, orientation |-> "portrait"]
    ELSE [cells |-> 32, grid |-> <<8, 4>>, orientation |-> "landscape"]

\* The bodies of the branches of lines 87-129: the divisor of num_new_pages,
\* the argument of create_matrix and the orientation.
Layout(lv, portrait) ==
    IF lv = "ONE_STEP"
    THEN IF portrait
         THEN [cells |-> 2, grid |-> <<1, 2>>, orientation |-> "portrait"]
         ELSE [cells |-> 2, grid |-> <<2, 1>>, orientation |-> "landscape"]
    ELSE IF lv = "TWO_STEP"
    THEN [cells |-> 4, grid |-> <<2, 2>>, orientation |-> "portrait"]
    ELSE IF lv = "THREE_STEP"
    THEN [cells |-> 8, grid |-> <<4, 2>>, orientation |-> "landscape"]
    ELSE IF lv = "FOUR_STEP"
    THEN [cells |-> 16, grid |-> <<4, 4>>, orientation |-> "portrait"]
    ELSE [cells |-> 32, grid |-> <<8, 4>>, orientation |-> "landscape"]

\* Slip: the output file is opened (and so truncated) before the
\* classification, the exception leaves it empty.
RaiseUnsupportedFileOpen ==
    /\ err' = "unsupported"
    /\ err_info' = <<page_diagonal, new_diagonal>>
    /\ pc' = "failed"
    /\ out_file' = << <<>> >>
    /\ UNCHANGED <<level, num_new_pages, indices, orientation, sheets,
                   translated_page, writer>>

\* Lines 131-133: no band matched; the exception leaves pdf_merger before
\* line 137.
RaiseUnsupported ==
    /\ err' = "unsupported"
    /\ err_info' = <<page_diagonal, new_diagonal>>
    /\ pc' = "failed"
    /\ UNCHANGED <<level, num_new_pages, indices, orientation, sheets,
                   translated_page, writer, out_file>>

\* Lines 87-133: classify the ratio, plan the layout, or raise.
Classify ==
    /\ pc = "classify"
    /\ UNCHANGED others
    /\ LET lv == Band(page_diagonal, new_diagonal)
           lay == Layout(lv, force_portrait)
       IN  IF lv = "none"
           THEN RaiseUnsupported
           ELSE /\ level' = lv
                /\ num_new_pages' = Ceil(num_pages, lay.cells)
                /\ indices' = create_matrix(lay.grid[1], lay.grid[2])
                /\ orientation' = lay.orientation
                /\ pc' = "create"
                /\ UNCHANGED <<err, err_info, sheets, translated_page, writer,
                               out_file>>
    /\ UNCHANGED <<inputs, it, num_pages, page_width, page_height,
                   page_diagonal, new_width, new_height, new_diagonal, i, page,
                   full_page>>

\* Slip: the page count is not tested.
FillModeAnyCount(f, n) == f

\* The test of line 144.
FillMode(f, n) == f /\ n = 1

\* Lines 137-146: the writer, the first blank sheet, and the mode, for the
\* value f of the fill argument.
CreateSheetWith(f) ==
    /\ pc = "create"
    /\ UNCHANGED others
    /\ writer' = <<>>
    /\ sheets' = Append(sheets, BlankSheet(orientation, new_width, new_height))
    /\ translated_page' = Len(sheets) + 1
    /\ i' = 0
    /\ it' = 0
    /\ IF FillMode(f, num_pages)
       THEN /\ page' = 0
            /\ full_page' = TRUE
            /\ pc' = "fill"
       ELSE /\ pc' = "normal"
            /\ UNCHANGED <<page, full_page>>
    /\ UNCHANGED <<inputs, num_pages, page_width, page_height, page_diagonal,
                   new_width, new_height, new_diagonal, num_new_pages, level,
                   indices, orientation, err, err_info, out_file>>

CreateSheet == CreateSheetWith(fill)

\* Slip: the offsets are taken from the first cell in every iteration.
FillCellFirstCell ==
    /\ pc = "fill"
    /\ UNCHANGED others
    /\ it < Len(indices)
    /\ i' = it
    /\ it' = it + 1
    /\ LET x_offset == indices[1][1] * page_width
           y_offset == indices[1][2] * page_height
       IN  sheets' = [sheets EXCEPT ![translated_page] =
                         mergeTranslatedPage(@, page, x_offset, y_offset)]
    /\ UNCHANGED <<inputs, pc, num_pages, page_width, page_height,
                   page_diagonal, new_width, new_height, new_diagonal,
                   num_new_pages, level, indices, orientation, page, full_page,
                   translated_page, writer, err, err_info, out_file>>

\* Lines 148-153: one iteration of the fill loop.
FillCell ==
    /\ pc = "fill"
    /\ UNCHANGED others
    /\ it < Len(indices)
    /\ i' = it
    /\ it' = it + 1
    /\ LET x_offset == indices[it + 1][1] * page_width
           y_offset == indices[it + 1][2] * page_height
       IN  sheets' = [sheets EXCEPT ![translated_page] =
                         mergeTranslatedPage(@, page, x_offset, y_offset)]
    /\ UNCHANGED <<inputs, pc, num_pages, page_width, page_height,
                   page_diagonal, new_width, new_height, new_diagonal,
                   num_new_pages, level, indices, orientation, page, full_page,
                   translated_page, writer, err, err_info, out_file>>

\* Line 154: the filled sheet goes to the writer.
FillAdd ==
    /\ pc = "fill"
    /\ UNCHANGED others
    /\ it >= Len(indices)
    /\ writer' = Append(writer, translated_page)
    /\ pc' = "write"
    /\ UNCHANGED <<inputs, it, locals, sheets, translated_page, err, err_info,
                   out_file>>

\* The test of line 169: the sheet is full.
SheetFull(cursor, cells) == cursor > cells - 1

\* Slip: lines 173-176 are missing, the added sheet stays the current one.
PlacePageNoFreshSheet ==
    /\ pc = "normal"
    /\ UNCHANGED others
    /\ it < num_pages
    /\ page' = it
    /\ it' = it + 1
    /\ LET x_offset == indices[i + 1][1] * page_width
           y_offset == indices[i + 1][2] * page_height
           merged == [sheets EXCEPT ![translated_page] =
                         mergeTranslatedPage(@, it, x_offset, y_offset)]
       IN  IF SheetFull(i + 1, Len(indices))
           THEN /\ i' = 0
                /\ writer' = Append(writer, translated_page)
                /\ full_page' = TRUE
                /\ sheets' = merged
                /\ UNCHANGED translated_page
           ELSE /\ i' = i + 1
                /\ full_page' = FALSE
                /\ sheets' = merged
                /\ UNCHANGED <<writer, translated_page>>
    /\ UNCHANGED <<inputs, pc, num_pages, page_width, page_height,
                   page_diagonal, new_width, new_height, new_diagonal,
                   num_new_pages, level, indices, orientation, err, err_info,
                   out_file>>

\* Lines 161-176: one iteration of the normal loop.
PlacePage ==
    /\ pc = "normal"
    /\ UNCHANGED others
    /\ it < num_pages
    /\ page' = it
    /\ it' = it + 1
    /\ LET x_offset == indices[i + 1][1] * page_width
           y_offset == indices[i + 1][2] * page_height
           merged == [sheets EXCEPT ![translated_page] =
                         mergeTranslatedPage(@, it, x_offset, y_offset)]
       IN  IF SheetFull(i + 1, Len(indices))
           THEN /\ i' = 0
                /\ writer' = Append(writer, translated_page)
                /\ full_page' = TRUE
                /\ sheets' = Append(merged,
                                BlankSheet(orientation, new_width, new_height))
                /\ translated_page' = Len(merged) + 1
           ELSE /\ i' = i + 1
                /\ full_page' = FALSE
                /\ sheets' = merged
                /\ UNCHANGED <<writer, translated_page>>
    /\ UNCHANGED <<inputs, pc, num_pages, page_width, page_height,
                   page_diagonal, new_width, new_height, new_diagonal,
                   num_new_pages, level, indices, orientation, err, err_info,
                   out_file>>

\* Slip: the current sheet is added after the loop whether or not it is full.
FlushAlways ==
    /\ pc = "normal"
    /\ UNCHANGED others
    /\ it >= num_pages
    /\ writer' = Append(writer, translated_page)
    /\ pc' = "write"
    /\ UNCHANGED <<inputs, it, locals, sheets, translated_page, err, err_info,
                   out_file>>

\* Lines 177-178: after the last page, a sheet that is not full is added.
Flush ==
    /\ pc = "normal"
    /\ UNCHANGED others
    /\ it >= num_pages
    /\ IF ~full_page
       THEN writer' = Append(writer, translated_page)
       ELSE UNCHANGED writer
    /\ pc' = "write"
    /\ UNCHANGED <<inputs, it, locals, sheets, translated_page, err, err_info,
                   out_file>>

\* Lines 180-188: the writer's sheets are serialised to the output file.
WriteOutput ==
    /\ pc = "write"
    /\ UNCHANGED others
    /\ out_file' = <<[k \in 1..Len(writer) |-> sheets[writer[k]]]>>
    /\ pc' = "done"
    /\ UNCHANGED <<inputs, it, locals, sheets, translated_page, writer, err,
                   err_info>>

\* Lines 183-185: open() raises IOError; it is printed and raised again.
WriteFails ==
    /\ pc = "write"
    /\ UNCHANGED others
    /\ err' = "io"
    /\ pc' = "failed"
    /\ UNCHANGED <<inputs, it, locals, sheets, translated_page, writer,
                   err_info, out_file>>

Next ==
    \/ Start
    \/ ValidatePage
    \/ SelectTarget
    \/ Upgrade
    \/ Classify
    \/ CreateSheet
    \/ FillCell
    \/ FillAdd
    \/ PlacePage
    \/ Flush
    \/ WriteOutput
    \/ WriteFails

Spec == Init /\ [][Next]_vars

\* A step of pdf_merger called with the value f for the fill argument.
NextWith(f) ==
    \/ Start
    \/ ValidatePage
    \/ SelectTarget
    \/ Upgrade
    \/ Classify
    \/ CreateSheetWith(f)
    \/ FillCell
    \/ FillAdd
    \/ PlacePage
    \/ Flush
    \/ WriteOutput
    \/ WriteFails

\* ------------------------------------------------------------ split_pdf ----
\* pdf_merger is not run.
MergerOff ==
    /\ pdf = <<>> /\ new_size = "A4" /\ fill = FALSE /\ force_portrait = FALSE
    /\ pc = "off" /\ it = 0
    /\ num_pages = 0 /\ page_width = 0 /\ page_height = 0 /\ page_diagonal = 0
    /\ new_width = 0 /\ new_height = 0 /\ new_diagonal = 0
    /\ num_new_pages = 0 /\ level = "none" /\ indices = <<>>
    /\ orientation = "none" /\ sheets = <<>> /\ translated_page = 0
    /\ writer = <<>> /\ i = 0 /\ page = 0 /\ full_page = FALSE
    /\ err = "none" /\ err_info = <<>> /\ out_file = <<>>

merger == <<inputs, pc, it, locals, outputs>>

InitSplit ==
    /\ MergerOff /\ CompressOff /\ MatrixOff
    /\ sp_pc = "start"
    /\ \E n \in 0..MaxSplitPages : sp_pdf = [k \in 1..n |-> k]
    /\ split_page \in (-1)..(MaxSplitPages + 1)
    /\ sp_num_pages = 0
    /\ pdf_writer = <<>>
    /\ sp_page = 0
    /\ sp_files = <<>>
    /\ sp_err = "none"

\* open(output_filename, 'wb') and pdf_writer.write(out): the file number k
\* holds the writer's pages.
WriteFile(files, k, pages) ==
    [j \in (DOMAIN files) \cup {k} |-> IF j = k THEN pages ELSE files[j]]

\* Slip: the test of line 38 lets the split point be the last page.
SplitPointTooLargeStrict(sp, n) == sp > n

\* The test of line 38.
SplitPointTooLarge(sp, n) == sp >= n

\* Lines 22-43 and 56-60: read the document, validate the split point,
\* choose the mode.
SplitStart ==
    /\ sp_pc = "start"
    /\ sp_num_pages' = Len(sp_pdf)
    /\ IF split_page < 0
       THEN /\ sp_err' = "ValueError: must be 0 or positive"
            /\ sp_pc' = "failed"
       ELSE IF split_page > 0 /\ Len(sp_pdf) = 1
       THEN /\ sp_err' = "ValueError: 1-page PDF"
            /\ sp_pc' = "failed"
       ELSE IF split_page > 0 /\ SplitPointTooLarge(split_page, Len(sp_pdf))
       THEN /\ sp_err' = "ValueError: not enough pages"
            /\ sp_pc' = "failed"
       ELSE /\ sp_pc' = IF split_page = 0 THEN "each" ELSE "first"
            /\ UNCHANGED sp_err
    /\ pdf_writer' = <<>>
    /\ sp_page' = 0
    /\ UNCHANGED <<sp_pdf, split_page, sp_files>>
    /\ UNCHANGED <<merger, cvars, mvars>>

\* Lines 46-53: one iteration of the loop of the every-page mode.
SplitEachPage ==
    /\ sp_pc = "each"
    /\ sp_page < Len(sp_pdf)
    /\ pdf_writer' = <<sp_pdf[sp_page + 1]>>
    /\ sp_files' = WriteFile(sp_files, sp_page + 1, pdf_writer')
    /\ sp_page' = sp_page + 1
    /\ UNCHANGED <<sp_pc, sp_pdf, split_page, sp_num_pages, sp_err>>
    /\ UNCHANGED <<merger, cvars, mvars>>

\* Line 46: the loop of the every-page mode ends, pdf_splitter returns.
SplitEachDone ==
    /\ sp_pc = "each"
    /\ sp_page >= Len(sp_pdf)
    /\ sp_pc' = "done"
    /\ UNCHANGED <<sp_pdf, split_page, sp_num_pages, pdf_writer, sp_page,
                   sp_files, sp_err>>
    /\ UNCHANGED <<merger, cvars, mvars>>

\* Lines 61-62: one iteration of the loop over range(split_page).
AddFirst ==
    /\ sp_pc = "first"
    /\ sp_page < split_page
    /\ pdf_writer' = Append(pdf_writer, sp_pdf[sp_page + 1])
    /\ sp_page' = sp_page + 1
    /\ UNCHANGED <<sp_pc, sp_pdf, split_page, sp_num_pages, sp_files, sp_err>>
    /\ UNCHANGED <<merger, cvars, mvars>>

\* Lines 63-68: file 1 is written, a new writer is made, the second loop
\* starts at split_page.
WriteFirst ==
    /\ sp_pc = "first"
    /\ sp_page >= split_page
    /\ sp_files' = WriteFile(sp_files, 1, pdf_writer)
    /\ pdf_writer' = <<>>
    /\ sp_page' = split_page
    /\ sp_pc' = "second"
    /\ UNCHANGED <<sp_pdf, split_page, sp_num_pages, sp_err>>
    /\ UNCHANGED <<merger, cvars, mvars>>

\* Lines 69-70: one iteration of the loop over range(split_page, len(pages)).
AddSecond ==
    /\ sp_pc = "second"
    /\ sp_page < Len(sp_pdf)
    /\ pdf_writer' = Append(pdf_writer, sp_pdf[sp_page + 1])
    /\ sp_page' = sp_page + 1
    /\ UNCHANGED <<sp_pc, sp_pdf, split_page, sp_num_pages, sp_files, sp_err>>
    /\ UNCHANGED <<merger, cvars, mvars>>

\* Lines 71-74: file 2 is written, pdf_splitter returns.
WriteSecond ==
    /\ sp_pc = "second"
    /\ sp_page >= Len(sp_pdf)
    /\ sp_files' = WriteFile(sp_files, 2, pdf_writer)
    /\ sp_pc' = "done"
    /\ UNCHANGED <<sp_pdf, split_page, sp_num_pages, pdf_writer, sp_page,
                   sp_err>>
    /\ UNCHANGED <<merger, cvars, mvars>>

NextSplit ==
    \/ SplitStart
    \/ SplitEachPage
    \/ SplitEachDone
    \/ AddFirst
    \/ WriteFirst
    \/ AddSecond
    \/ WriteSecond

SpecSplit == InitSplit /\ [][NextSplit]_vars

\* -------------------------------------------------------- create_matrix ----
InitMatrix ==
    /\ MergerOff /\ SplitOff /\ CompressOff
    /\ cm_pc = "call"
    /\ cm_args \in (0..MaxGrid) \X (0..MaxGrid)
    /\ matrix = <<>>

\* Lines 190-201: matrix = create_matrix(n, m).
CallCreateMatrix ==
    /\ cm_pc = "call"
    /\ matrix' = create_matrix(cm_args[1], cm_args[2])
    /\ cm_pc' = "return"
    /\ UNCHANGED cm_args
    /\ UNCHANGED <<merger, svars, cvars>>

NextMatrix == CallCreateMatrix

SpecMatrix == InitMatrix /\ [][NextMatrix]_vars

\* ----------------------------------------------------------- band sweep ----
\* pdf_merger on one-page documents whose diagonal sweeps the ratios from 0
\* to 1.5 (A4) in steps of about 0.002.
InitBands ==
    /\ \E w \in 1..MaxBandWidth : pdf = << <<2 * w, 2 * ((w * 1414) \div 1000)>> >>
    /\ new_size \in {"A4", "A3"}
    /\ fill \in BOOLEAN
    /\ force_portrait = FALSE
    /\ pc = "start"
    /\ it = 0
    /\ num_pages = 0 /\ page_width = 0 /\ page_height = 0 /\ page_diagonal = 0
    /\ new_width = 0 /\ new_height = 0 /\ new_diagonal = 0
    /\ num_new_pages = 0
    /\ level = "none"
    /\ indices = <<>>
    /\ orientation = "none"
    /\ sheets = <<>>
    /\ translated_page = 0
    /\ writer = <<>>
    /\ i = 0 /\ page = 0
    /\ full_page = FALSE
    /\ err = "none"
    /\ err_info = <<>>
    /\ out_file = <<>>
    /\ SplitOff /\ CompressOff /\ MatrixOff

SpecBands == InitBands /\ [][Next]_vars

\* --------------------------------------------------------- compress_pdf ----
\* Contents of a file: "absent" (no such file), "original" (the PDF to
\* compress), "garbage" (not starting with %PDF-), "old" (a file that was
\* there before the run), "empty" (as mkstemp leaves it), "compressed"
\* (Ghostscript's result), "partial" (what a failing Ghostscript left).
InitCompress ==
    /\ MergerOff /\ SplitOff /\ MatrixOff
    /\ c_pc = "start"
    /\ \E o \in BOOLEAN, b \in BOOLEAN, lv \in {-1, 0, 2, 4, 5} :
         \/ c_args = [out |-> o, compress_set |-> TRUE, compress |-> lv,
                      backup |-> b]
         \/ c_args = [out |-> o, compress_set |-> FALSE, compress |-> 0,
                      backup |-> b]
    /\ replace_original = FALSE
    /\ temp_file = FALSE
    /\ \E inp \in {"absent", "original", "garbage"},
          out \in {"absent", "old"}, bak \in {"absent", "old"} :
         fs = [input |-> inp, temp |-> "absent", out |-> out, backup |-> bak]
    /\ input_pdf_ext \in BOOLEAN
    /\ return_code = -1
    /\ gs_wrote = FALSE
    /\ response = "none"
    /\ c_err = "none"
    /\ exit_code = -1

\* Lines 145-152: the default level, and the range check.
ParseArgs ==
    /\ c_pc = "start"
    /\ LET lv == IF c_args.compress_set THEN c_args.compress ELSE 2
       IN  /\ c_args' = [c_args EXCEPT !.compress_set = TRUE, !.compress = lv]
           /\ IF lv < 0 \/ lv > 4
              THEN /\ exit_code' = 1
                   /\ c_pc' = "exited"
              ELSE /\ c_pc' = "mkstemp"
                   /\ UNCHANGED exit_code
    /\ UNCHANGED <<replace_original, temp_file, fs, input_pdf_ext, return_code,
                   gs_wrote, response, c_err>>
    /\ UNCHANGED <<merger, svars, mvars>>

\* Lines 155-163: without -o the output goes to a new, empty temporary file.
MakeTemp ==
    /\ c_pc = "mkstemp"
    /\ replace_original' = ~c_args.out
    /\ IF ~c_args.out
       THEN /\ temp_file' = TRUE
            /\ fs' = [fs EXCEPT !.temp = "empty"]
       ELSE UNCHANGED <<temp_file, fs>>
    /\ c_pc' = "validate"
    /\ UNCHANGED <<c_args, input_pdf_ext, return_code, gs_wrote, response,
                   c_err, exit_code>>
    /\ UNCHANGED <<merger, svars, mvars>>

\* Lines 64-79 of compress: the input exists, is named .pdf, starts with %PDF-.
ValidateInput ==
    /\ c_pc = "validate"
    /\ IF fs.input = "absent"
       THEN c_err' = "FileNotFoundError" /\ c_pc' = "except"
       ELSE IF ~input_pdf_ext
       THEN c_err' = "ValueError" /\ c_pc' = "except"
       ELSE IF fs.input # "original"
       THEN c_err' = "ValueError" /\ c_pc' = "except"
       ELSE c_pc' = "find_gs" /\ UNCHANGED c_err
    /\ UNCHANGED <<c_args, replace_original, temp_file, fs, input_pdf_ext,
                   return_code, gs_wrote, response, exit_code>>
    /\ UNCHANGED <<merger, svars, mvars>>

\* Lines 81 and 115-129: Ghostscript is on the path or not.
FindGhostscript ==
    /\ c_pc = "find_gs"
    /\ \E found \in BOOLEAN :
         IF found
         THEN c_pc' = "run_gs" /\ UNCHANGED c_err
         ELSE c_err' = "FileNotFoundError" /\ c_pc' = "except"
    /\ UNCHANGED <<c_args, replace_original, temp_file, fs, input_pdf_ext,
                   return_code, gs_wrote, response, exit_code>>
    /\ UNCHANGED <<merger, svars, mvars>>

\* The path compress() is given as output_file_path (args.out, line 163).
OutputPath == IF replace_original THEN "temp" ELSE "out"

\* The test of line 94.
ReturnCodeFails(rc) == rc # 0

\* Lines 83-112: Ghostscript runs and returns rc, having written its output
\* file or not; compress() checks the code and that the output file exists.
RunGhostscript ==
    /\ c_pc = "run_gs"
    /\ \E rc \in {0, 1}, wrote \in BOOLEAN :
         LET written == IF rc = 0 THEN "compressed" ELSE "partial"
             files == IF wrote THEN [fs EXCEPT ![OutputPath] = written] ELSE fs
         IN  /\ return_code' = rc
             /\ gs_wrote' = wrote
             /\ fs' = files
             /\ IF ReturnCodeFails(rc)
                THEN c_err' = "RuntimeError" /\ c_pc' = "except"
                ELSE IF files[OutputPath] = "absent"
                THEN c_err' = "RuntimeError" /\ c_pc' = "except"
                ELSE c_pc' = "compressed" /\ UNCHANGED c_err
    /\ UNCHANGED <<c_args, replace_original, temp_file, input_pdf_ext,
                   response, exit_code>>
    /\ UNCHANGED <<merger, svars, mvars>>

\* Lines 170-184: after compress() returned; the prompt when the backup path
\* exists. sys.exit(0) raises SystemExit inside the try block, so the
\* finally clause runs before the program exits.
AfterCompress ==
    /\ c_pc = "compressed"
    /\ IF ~replace_original
       THEN c_pc' = "finally" /\ UNCHANGED <<response, exit_code>>
       ELSE IF ~c_args.backup
       THEN c_pc' = "replace" /\ UNCHANGED <<response, exit_code>>
       ELSE IF fs.backup = "absent"
       THEN c_pc' = "copy_backup" /\ UNCHANGED <<response, exit_code>>
       ELSE \E r \in {"y", "n", ""} :
              /\ response' = r
              /\ IF r # "y"
                 THEN exit_code' = 0 /\ c_pc' = "finally"
                 ELSE c_pc' = "copy_backup" /\ UNCHANGED exit_code
    /\ UNCHANGED <<c_args, replace_original, temp_file, fs, input_pdf_ext,
                   return_code, gs_wrote, c_err>>
    /\ UNCHANGED <<merger, svars, mvars>>

\* Lines 186-187: the original is copied to the backup path.
CopyBackup ==
    /\ c_pc = "copy_backup"
    /\ fs' = [fs EXCEPT !.backup = fs.input]
    /\ c_pc' = "replace"
    /\ UNCHANGED <<c_args, replace_original, temp_file, input_pdf_ext,
                   return_code, gs_wrote, response, c_err, exit_code>>
    /\ UNCHANGED <<merger, svars, mvars>>

\* Line 189: the temporary file is copied over the original.
ReplaceOriginal ==
    /\ c_pc = "replace"
    /\ fs' = [fs EXCEPT !.input = fs.temp]
    /\ c_pc' = "finally"
    /\ UNCHANGED <<c_args, replace_original, temp_file, input_pdf_ext,
                   return_code, gs_wrote, response, c_err, exit_code>>
    /\ UNCHANGED <<merger, svars, mvars>>

\* Lines 191-202: every exception is printed and turned into sys.exit(1).
HandleError ==
    /\ c_pc = "except"
    /\ exit_code' = 1
    /\ c_pc' = "finally"
    /\ UNCHANGED <<c_args, replace_original, temp_file, fs, input_pdf_ext,
                   return_code, gs_wrote, response, c_err>>
    /\ UNCHANGED <<merger, svars, mvars>>

\* Lines 203-209: the temporary file is removed if it exists; a pending
\* sys.exit then ends the program.
Finally ==
    /\ c_pc = "finally"
    /\ IF temp_file /\ fs.temp # "absent"
       THEN fs' = [fs EXCEPT !.temp = "absent"]
       ELSE UNCHANGED fs
    /\ c_pc' = IF exit_code # -1 THEN "exited" ELSE "open"
    /\ UNCHANGED <<c_args, replace_original, temp_file, input_pdf_ext,
                   return_code, gs_wrote, response, c_err, exit_code>>
    /\ UNCHANGED <<merger, svars, mvars>>

\* Lines 211-222: the viewer, if asked for, and the normal end, status 0.
Finish ==
    /\ c_pc = "open"
    /\ exit_code' = 0
    /\ c_pc' = "exited"
    /\ UNCHANGED <<c_args, replace_original, temp_file, fs, input_pdf_ext,
                   return_code, gs_wrote, response, c_err>>
    /\ UNCHANGED <<merger, svars, mvars>>

NextCompress ==
    \/ ParseArgs
    \/ MakeTemp
    \/ ValidateInput
    \/ FindGhostscript
    \/ RunGhostscript
    \/ AfterCompress
    \/ CopyBackup
    \/ ReplaceOriginal
    \/ HandleError
    \/ Finally
    \/ Finish

SpecCompress == InitCompress /\ [][NextCompress]_vars

\* ----------------------------------------------------------- properties ----
\* The run has left the compositor: every sheet it emits is in the writer.
Composed == pc \in {"write", "done"} \/ (pc = "failed" /\ err = "io")

\* The run has passed the classifier without an exception.
Classified == pc \in {"create", "fill", "normal"} \/ Composed

NormalMode == ~(fill /\ Len(pdf) = 1)

\* The offsets of the cell c of the tiling order.
CellOffset(c) == <<c[1] * page_width, c[2] * page_height>>

RECURSIVE PlacedCount(_)
PlacedCount(ws) ==
    IF ws = <<>> THEN 0
    ELSE Len(sheets[Head(ws)].placed) + PlacedCount(Tail(ws))

\* C1: in normal mode the writer holds exactly ceil(n / c) sheets for an
\* accepted document of n >= 1 pages and c cells per sheet, that is
\* (sheets - 1) * c < n <= sheets * c, and none of them is empty.
C1_SheetCount ==
    (Composed /\ NormalMode) =>
        LET c == Len(indices)
            n == Len(pdf)
        IN  /\ n >= 1 /\ c >= 1
            /\ (Len(writer) - 1) * c < n
            /\ n <= Len(writer) * c
            /\ \A k \in 1..Len(writer) : sheets[writer[k]].placed # <<>>

\* C1 witness: 8 pages on 4-cell sheets, written as 2 sheets.
C1_Witness ==
    /\ pc = "done" /\ NormalMode
    /\ Len(pdf) = 8 /\ Len(indices) = 4 /\ Len(writer) = 2

\* C2: in normal mode page k (from 0) is the (k mod c)-th page placed on the
\* (k div c)-th sheet of the writer, at the offsets of tilingOrder[k mod c];
\* the sheets of the writer hold n placements in all and no other sheet
\* holds any.
C2_Placement ==
    (Composed /\ NormalMode) =>
        LET c == Len(indices)
            n == Len(pdf)
        IN  /\ \A k \in 0..(n - 1) :
                 /\ (k \div c) + 1 <= Len(writer)
                 /\ (k % c) + 1 <= Len(sheets[writer[(k \div c) + 1]].placed)
                 /\ LET e == sheets[writer[(k \div c) + 1]].placed[(k % c) + 1]
                        o == CellOffset(indices[(k % c) + 1])
                    IN  e = [page |-> k, x |-> o[1], y |-> o[2]]
            /\ PlacedCount(writer) = n
            /\ \A s \in 1..Len(sheets) :
                 (\A k \in 1..Len(writer) : writer[k] # s)
                     => sheets[s].placed = <<>>

\* C2 witness: 9 pages on 8-cell sheets, the ninth alone on the second sheet.
C2_Witness ==
    /\ pc = "done" /\ NormalMode
    /\ Len(pdf) = 9 /\ Len(indices) = 8 /\ Len(writer) = 2
    /\ Len(sheets[writer[2]].placed) = 1

\* C3: fill mode with one page emits one sheet; it holds columns * rows
\* placements of page 0, the j-th at the j-th cell of the tiling order, and
\* the cells are the columns * rows distinct cells of the grid.
C3_FillOnePage ==
    (Composed /\ fill /\ Len(pdf) = 1) =>
        LET g == Layout(level, force_portrait).grid
            placed == sheets[writer[1]].placed
        IN  /\ Len(writer) = 1
            /\ Len(sheets) = 1
            /\ Len(placed) = g[1] * g[2]
            /\ Len(indices) = g[1] * g[2]
            /\ \A j \in 1..Len(placed) :
                 placed[j] = [page |-> 0, x |-> CellOffset(indices[j])[1],
                              y |-> CellOffset(indices[j])[2]]
            /\ {<<placed[j].x, placed[j].y>> : j \in 1..Len(placed)}
                 = {<<a * page_width, b * page_height>> :
                        a \in 0..(g[1] - 1), b \in 0..(g[2] - 1)}
            /\ Cardinality({<<placed[j].x, placed[j].y>> : j \in 1..Len(placed)})
                 = g[1] * g[2]

\* C3 witness: one page filled into the 32 cells of an 8 x 4 grid.
C3_Witness ==
    /\ pc = "done" /\ fill /\ Len(pdf) = 1
    /\ Len(indices) = 32 /\ Len(sheets[writer[1]].placed) = 32

\* C4: with more than one page, every step of a run with fill = true is the
\* step the run with fill = false takes from the same state: the two runs
\* build the same sheets and placements and fail or succeed alike.
C4_FillDegrades ==
    [][(fill /\ Len(pdf) > 1) => NextWith(FALSE)]_vars

\* C4 witness: a 3-page document merged with fill = true.
C4_Witness ==
    /\ pc = "done" /\ fill /\ Len(pdf) = 3 /\ Len(writer) >= 1

\* C5: when pdf_merger has raised for an empty document, a deviating page
\* or an unmatched ratio, no blank sheet exists, nothing is composited,
\* the writer is empty and the output file was not opened.
C5_FailsBeforeWork ==
    err \in {"empty", "inconsistent", "unsupported"} =>
        /\ pc = "failed"
        /\ sheets = <<>>
        /\ writer = <<>>
        /\ translated_page = 0
        /\ out_file = <<>>

\* C5 witness: the latest of the three failures, on a document of several
\* equal pages.
C5_Witness ==
    /\ pc = "failed" /\ err = "unsupported" /\ Len(pdf) > 1

\* The classifier has run: it chose a level or raised.
Decided == Classified \/ (pc = "failed" /\ err = "unsupported")

\* lo/1000 <= page_diagonal / new_diagonal < hi/1000, on the squares.
RatioIn(pd, nd, lo, hi) ==
    /\ lo * lo <= RatioSq(pd, nd)
    /\ RatioSq(pd, nd) < hi * hi

\* C6: with the ratio taken against the target after the upgrade, the level
\* is ONE_STEP iff the ratio rounds (1 decimal) to 0.7, TWO_STEP iff to 0.5,
\* THREE_STEP iff it rounds (2 decimals) to 0.35, FOUR_STEP iff to 0.25,
\* FIVE_STEP iff to 0.18, and the call fails as unsupported for every other
\* ratio.
C6_Bands ==
    Decided =>
        LET in(lo, hi) == RatioIn(page_diagonal, new_diagonal, lo, hi)
        IN  /\ (level = "ONE_STEP") <=> in(650, 750)
            /\ (level = "TWO_STEP") <=> in(450, 550)
            /\ (level = "THREE_STEP") <=> in(345, 355)
            /\ (level = "FOUR_STEP") <=> in(245, 255)
            /\ (level = "FIVE_STEP") <=> in(175, 185)
            /\ (err = "unsupported") <=>
                 ~(in(650, 750) \/ in(450, 550) \/ in(345, 355)
                   \/ in(245, 255) \/ in(175, 185))
            /\ (err = "unsupported") <=> (level = "none")

\* C6 witness: a ratio that rounds to 0.9 is rejected.
C6_Witness ==
    /\ pc = "failed" /\ err = "unsupported"
    /\ RatioIn(page_diagonal, new_diagonal, 850, 950)

\* The page is as large as an A4 sheet: the ratio to the A4 diagonal rounds
\* (1 decimal) to 1.0.
SameAsA4 ==
    RatioIn(page_diagonal, get_diagonal(A4Width, A4Height), 950, 1050)

\* The page is as large as an A3 sheet.
SameAsA3 ==
    RatioIn(page_diagonal, get_diagonal(A3Width, A3Height), 950, 1050)

\* C7: an A4 target with a page of ratio 1.0 becomes A3: from the upgrade on
\* the target is 842 x 1190 with the A3 diagonal, the level is ONE_STEP with
\* 2 cells and the orientation of the rotate flag, and every sheet is
\* 842 x 1190, swapped for landscape.
C7_UpgradeToA3 ==
    (new_size = "A4" /\ pc \notin {"start", "validate", "upgrade"} /\ SameAsA4) =>
        /\ new_width = 842 /\ new_height = 1190
        /\ new_diagonal = 842 * 842 + 1190 * 1190
        /\ err # "unsupported"
        /\ Classified =>
             /\ level = "ONE_STEP"
             /\ Len(indices) = 2
             /\ orientation = IF force_portrait THEN "portrait" ELSE "landscape"
             /\ \A s \in 1..Len(sheets) :
                  <<sheets[s].width, sheets[s].height>> =
                     IF force_portrait THEN <<842, 1190>> ELSE <<1190, 842>>

\* C7 witness: one A4 page filled onto an A3 landscape sheet.
C7_Witness ==
    /\ pc = "done" /\ new_size = "A4" /\ SameAsA4 /\ fill /\ Len(pdf) = 1
    /\ ~force_portrait /\ sheets[writer[1]].width = 1190

\* The layout table of the claim C8: columns, rows, orientation.
C8_Table(lv, flag) ==
    IF lv = "ONE_STEP" THEN (IF flag THEN <<1, 2, "portrait">>
                             ELSE <<2, 1, "landscape">>)
    ELSE IF lv = "TWO_STEP" THEN <<2, 2, "portrait">>
    ELSE IF lv = "THREE_STEP" THEN <<4, 2, "landscape">>
    ELSE IF lv = "FOUR_STEP" THEN <<4, 4, "portrait">>
    ELSE <<8, 4, "landscape">>

\* C8: the tiling order, the orientation, the size of every sheet and the
\* offsets of every placement are those of the fixed table, in which only the
\* ONE_STEP row reads the flag; a portrait sheet is (new_width, new_height),
\* a landscape sheet (new_height, new_width).
C8_Layout ==
    Classified =>
        LET e == C8_Table(level, force_portrait)
            order == create_matrix(e[1], e[2])
        IN  /\ indices = order
            /\ Len(indices) = e[1] * e[2]
            /\ orientation = e[3]
            /\ \A s \in 1..Len(sheets) :
                 /\ <<sheets[s].width, sheets[s].height>> =
                       IF e[3] = "portrait" THEN <<new_width, new_height>>
                       ELSE <<new_height, new_width>>
                 /\ \A j \in 1..Len(sheets[s].placed) :
                       <<sheets[s].placed[j].x, sheets[s].placed[j].y>>
                          = CellOffset(order[j])

\* C8 witness: a THREE_STEP document merged with the flag set stays landscape.
C8_Witness ==
    /\ pc = "done" /\ level = "THREE_STEP" /\ force_portrait
    /\ orientation = "landscape" /\ Len(writer) >= 1

\* The rounded media box of page k (from 1).
RoundedBox(k) == <<PyRound(pdf[k][1]), PyRound(pdf[k][2])>>

Offending == {k \in 1..Len(pdf) : RoundedBox(k) # RoundedBox(1)}

\* C9: a document with a page whose rounded size differs from the first
\* page's gets no further than the validation, and fails there with the
\* number (from 1) of the first such page, its size and the first page's.
C9_FirstOffender ==
    /\ Offending # {} =>
         \/ pc \in {"start", "validate"}
         \/ /\ pc = "failed" /\ err = "inconsistent"
            /\ LET first == CHOOSE k \in Offending : \A m \in Offending : k <= m
               IN  err_info = <<first, RoundedBox(first), RoundedBox(1)>>
    /\ err = "inconsistent" => Offending # {}

\* C9 witness: 3 pages, pages 2 and 3 differ, the error names page 2.
C9_Witness ==
    /\ err = "inconsistent" /\ Len(pdf) = 3 /\ Offending = {2, 3}
    /\ err_info[1] = 2

\* C10: an A3 target with a page of ratio 1.0 stays A3, no band matches and
\* the call fails as unsupported with no sheet produced.
C10_SameSizeA3 ==
    (new_size = "A3" /\ pc \notin {"start", "validate"} /\ SameAsA3) =>
        /\ new_width = A3Width /\ new_height = A3Height
        /\ new_diagonal = get_diagonal(A3Width, A3Height)
        /\ pc \in {"upgrade", "classify", "failed"}
        /\ pc = "failed" => err = "unsupported"
        /\ level = "none"
        /\ sheets = <<>> /\ writer = <<>> /\ out_file = <<>>

\* C10 witness: an A3 document on an A3 target has failed as unsupported.
C10_Witness ==
    /\ pc = "failed" /\ err = "unsupported" /\ new_size = "A3" /\ SameAsA3

\* The pages lo..hi of the input, in order.
PageRange(lo, hi) == [k \in 1..(hi - lo + 1) |-> sp_pdf[lo + k - 1]]

\* C11: with -p N, 1 <= N < num_pages, pdf_splitter writes exactly the
\* files 1 and 2, holding the pages 1..N and N+1..num_pages in order, both
\* non-empty, and does not fail; with N < 0, or N > 0 and N >= num_pages
\* (a 1-page document included), it fails and no file is ever written.
C11_TwoFiles ==
    LET n == Len(sp_pdf)
        N == split_page
    IN  /\ (sp_pc = "done" /\ N # 0) =>
             /\ 1 <= N /\ N < n
             /\ DOMAIN sp_files = {1, 2}
             /\ sp_files[1] = PageRange(1, N)
             /\ sp_files[2] = PageRange(N + 1, n)
             /\ sp_files[1] # <<>> /\ sp_files[2] # <<>>
             /\ sp_files[1] \o sp_files[2] = sp_pdf
        /\ (1 <= N /\ N < n) => (sp_pc # "failed" /\ sp_err = "none")
        /\ (sp_pc \notin {"off", "start"} /\ (N < 0 \/ (N > 0 /\ N >= n))) =>
             (sp_pc = "failed" /\ sp_err # "none")
        /\ sp_err # "none" => (sp_pc = "failed" /\ DOMAIN sp_files = {})

\* C11 witness: 5 pages split at page 2.
C11_Witness ==
    /\ sp_pc = "done" /\ Len(sp_pdf) = 5 /\ split_page = 2
    /\ Len(sp_files[1]) = 2 /\ Len(sp_files[2]) = 3

\* C12: create_matrix(columns, rows) returns columns * rows cells; every cell
\* (c, r), 0 <= c < columns, 0 <= r < rows, occurs exactly once; the k-th
\* cell (from 0) is column k mod columns of row rows - 1 - k div columns:
\* rows go down from rows - 1 to 0, columns up from 0 within a row.
C12_MatrixCells ==
    cm_pc = "return" =>
        LET columns == cm_args[1]
            rows == cm_args[2]
        IN  /\ Len(matrix) = columns * rows
            /\ \A c \in 0..(columns - 1), r \in 0..(rows - 1) :
                 Cardinality({k \in 1..Len(matrix) : matrix[k] = <<c, r>>}) = 1
            /\ \A k \in 1..Len(matrix) :
                 matrix[k] = <<(k - 1) % columns, rows - 1 - ((k - 1) \div columns)>>

\* C12 witness: the 3 x 2 grid, first cell in row 1, last cell (2, 0).
C12_Witness ==
    /\ cm_pc = "return" /\ cm_args = <<3, 2>>
    /\ Len(matrix) = 6 /\ matrix[1] = <<0, 1>> /\ matrix[6] = <<2, 0>>

\* C13 as claimed: the tiling order starts at cell (0, 0), its row indices
\* never decrease, and the first page of every sheet is placed at the
\* offsets of cell (0, 0).
C13_RowZeroFirst ==
    Classified =>
        /\ indices[1] = <<0, 0>>
        /\ \A j \in 1..(Len(indices) - 1) : indices[j][2] <= indices[j + 1][2]
        /\ \A s \in 1..Len(sheets) :
             sheets[s].placed # <<>> =>
                 <<sheets[s].placed[1].x, sheets[s].placed[1].y>> = <<0, 0>>

\* C13, amended: row 0 lies at the canvas origin, the bottom of the sheet.
\* The tiling order starts at cell (0, rows - 1), the top row, its row
\* indices never increase and end at row 0, the columns of a row go up
\* from 0, and the first page of every sheet is placed at the offsets
\* (0, (rows - 1) * page_height).
C13_TopRowFirst ==
    Classified =>
        LET columns == C8_Table(level, force_portrait)[1]
            rows == C8_Table(level, force_portrait)[2]
        IN  /\ indices[1] = <<0, rows - 1>>
            /\ indices[Len(indices)] = <<columns - 1, 0>>
            /\ \A j \in 1..(Len(indices) - 1) :
                 \/ /\ indices[j + 1][2] = indices[j][2]
                    /\ indices[j + 1][1] = indices[j][1] + 1
                 \/ /\ indices[j + 1][2] = indices[j][2] - 1
                    /\ indices[j][1] = columns - 1
                    /\ indices[j + 1][1] = 0
            /\ \A s \in 1..Len(sheets) :
                 sheets[s].placed # <<>> =>
                     <<sheets[s].placed[1].x, sheets[s].placed[1].y>>
                        = <<0, (rows - 1) * page_height>>

\* C13 witness: a 4 x 4 sheet whose first page lies in row 3.
C13_Witness ==
    /\ pc = "done" /\ level = "FOUR_STEP" /\ Len(writer) >= 1
    /\ sheets[writer[1]].placed[1].y = 3 * page_height
    /\ sheets[writer[1]].placed[1].x = 0

Levels == <<"ONE_STEP", "TWO_STEP", "THREE_STEP", "FOUR_STEP", "FIVE_STEP">>

\* The level of the first test of t that holds when the tests are tried in
\* the given order, "none" when none holds.
FirstMatch(order, t) ==
    IF \E k \in 1..5 : t[order[k]]
    THEN Levels[order[CHOOSE k \in 1..5 :
                        t[order[k]] /\ \A j \in 1..(k - 1) : ~t[order[j]]]]
    ELSE "none"

\* C14: for the ratio of the page to the target, before and after the
\* upgrade, at most one of the five tests holds and none holds when the
\* 1.0 test holds; the level pdf_merger chose (or its failure) is what the
\* five tests give in every one of their 120 orders.
C14_Exclusive ==
    new_diagonal # 0 =>
        LET t == BandTests(page_diagonal, new_diagonal)
        IN  /\ Cardinality({k \in 1..5 : t[k]}) <= 1
            /\ SameSizeTest(page_diagonal, new_diagonal)
                  => \A k \in 1..5 : ~t[k]
            /\ Decided =>
                 \A order \in Permutations(1..5) : FirstMatch(order, t) = level

\* C14 witness: a page in the narrowest band, 0.18, accepted as FIVE_STEP.
C14_Witness ==
    /\ pc = "done" /\ level = "FIVE_STEP"
    /\ BandTests(page_diagonal, new_diagonal)[5]
    /\ RatioIn(page_diagonal, new_diagonal, 175, 185)

\* C15: a run without -o and with -b in which the backup path existed and
\* the prompt was answered with something other than y ends with status 0,
\* the original unmodified and the compressed result still at the
\* temporary path.
C15_TempFileKept ==
    (c_pc = "exited" /\ response \notin {"none", "y"}) =>
        /\ replace_original /\ c_args.backup
        /\ exit_code = 0
        /\ fs.input = "original"
        /\ fs.temp # "absent"

\* The contents the input file can have before the run.
InputContents == {"absent", "original", "garbage"}

\* The run failed: the validation, the search for Ghostscript or compress()
\* raised, or Ghostscript returned 0 without writing its output file.
CompressFailed ==
    \/ c_err # "none"
    \/ (return_code = 0 /\ ~gs_wrote)

\* C17: without -o the input file changes only once Ghostscript has
\* returned 0 and the output file exists, and a run that failed ends with
\* the input file as it was and the temporary file removed.
C17_OriginalSafe ==
    replace_original =>
        /\ fs.input \notin InputContents =>
              (return_code = 0 /\ c_err = "none" /\ temp_file)
        /\ (c_pc = "exited" /\ CompressFailed) =>
              (fs.input \in InputContents /\ fs.temp = "absent")

\* C16: every placed page lies within its sheet, up to 2 points: its right
\* edge x + page_width is at most the sheet's width + 2, its upper edge
\* y + page_height at most the sheet's height + 2.
C16_WithinCanvas ==
    \A s \in 1..Len(sheets) :
        \A j \in 1..Len(sheets[s].placed) :
            /\ sheets[s].placed[j].x + page_width <= sheets[s].width + 2
            /\ sheets[s].placed[j].y + page_height <= sheets[s].height + 2

\* The sheet s has been added to the writer w.
InWriter(w, s) == \E k \in 1..Len(w) : w[k] = s

\* C18: in every step of pdf_merger a sheet that is in the writer stays as
\* it is; a sheet that changes is the current sheet and is not in the
\* writer; when a full sheet is added while pages remain, the current
\* sheet becomes a new blank sheet that is not in the writer; no sheet is
\* in the writer twice; and the cursor used for a placement, and the cursor
\* after it, lie in 0 .. columns * rows - 1.
C18_FinalizedFrozen ==
    [][ /\ \A s \in 1..Len(sheets) :
             /\ InWriter(writer, s) => sheets'[s] = sheets[s]
             /\ sheets'[s] # sheets[s] =>
                   (s = translated_page /\ ~InWriter(writer, s))
        /\ \A k1, k2 \in 1..Len(writer') :
             writer'[k1] = writer'[k2] => k1 = k2
        /\ (pc = "normal" /\ writer' # writer /\ it < num_pages) =>
             /\ translated_page' # translated_page
             /\ ~InWriter(writer', translated_page')
             /\ sheets'[translated_page'].placed = <<>>
        /\ (pc = "normal" /\ sheets' # sheets) =>
             (0 <= i /\ i < Len(indices) /\ 0 <= i' /\ i' < Len(indices))
        /\ (pc = "fill" /\ sheets' # sheets) =>
             (0 <= i' /\ i' < Len(indices))
      ]_vars

\* C18 witness: 9 pages on 4-cell sheets: two full sheets and a third with
\* one page, each added once.
C18_Witness ==
    /\ pc = "done" /\ NormalMode /\ Len(pdf) = 9 /\ Len(indices) = 4
    /\ writer = <<1, 2, 3>> /\ Len(sheets) = 3
    /\ Len(sheets[3].placed) = 1

====
